---- MODULE Spec2Model ----
(***************************************************************************)
(* Model of examples/PINN/scripts/Bioreactor_Multifidelity.py:             *)
(* the sequential multifidelity PINN trainer, the Epoch_Decay epoch        *)
(* budget and the routing of MultiNetwork.eval.                            *)
(*                                                                         *)
(* Network weights are abstracted to a digest                              *)
(*   [init, adam, lbfgs, dirty]                                            *)
(* init  = the object whose random initialisation the weights descend from *)
(* adam  = number of completed ADAM fits applied to them                   *)
(* lbfgs = number of completed L-BFGS-B fits applied to them               *)
(* dirty = TRUE when a fit that raised left them partially updated         *)
(* Two digests are equal exactly when the weights are the same values.     *)
(* Network objects live in heap (object id -> digest); net, net_ and the   *)
(* workers of the MultiNetwork hold object ids, i.e. references.           *)
(***************************************************************************)
EXTENDS Integers, Sequences, FiniteSets, TLC

VARIABLES pc, args_train, train, i, net, net_, heap, workers, state_t,
          initial_state, get_n_epochs, approximated_data, saved, log,
          iteration_number, n_epochs, prev_iteration, prev_epochs,
          input_data, eval_indices, local_input, eval_result

vars == <<pc, args_train, train, i, net, net_, heap, workers, state_t,
          initial_state, get_n_epochs, approximated_data, saved, log,
          iteration_number, n_epochs, prev_iteration, prev_epochs,
          input_data, eval_indices, local_input, eval_result>>

scriptVars == <<pc, args_train, train, i, net, net_, heap, workers, state_t,
                initial_state, get_n_epochs, approximated_data, saved, log>>
decayVars == <<iteration_number, n_epochs, prev_iteration, prev_epochs>>
evalVars == <<input_data, eval_indices, local_input, eval_result>>

----------------------------------------------------------------------------
(* Program constants *)

n == 100
t_max == 72
n_intervals == 72
n_epochs_ini == 5000
n_epochs_min == 500
Epoch_Tau == 3
DecayCutoff == 100

(* Bounds of the model *)

\* largest iteration number handed to Epoch_Decay in SpecDecay
MaxIter == 130
\* coarse time ticks per hour in SpecEval
Sub == 2
\* fine time offsets range over -MaxFine..MaxFine, one unit being 5e-14 h
MaxFine == 3
\* how far (in hours) the evaluated times reach outside [0, t_max]
Margin == 2

\* values the command line can give to --train
TrainValues == {"yes", "no", "restore"}

----------------------------------------------------------------------------
(* Epoch_Decay, lines 95-107.  Reals in [0, 1] are fixed-point integers    *)
(* with eight decimals; products are formed from four-digit halves so that *)
(* every intermediate value stays below 2^31.                              *)

ONE == 100000000
HALF == 10000

\* exp(-1/Epoch_Tau) = 0.716531310573789..., to eight decimals
ExpInvTau == 71653131

Mul(a, b) ==
  LET ah == a \div HALF
      al == a % HALF
      bh == b \div HALF
      bl == b % HALF
  IN  ah * bh + ((ah * bl + al * bh + ((al * bl) \div HALF)) \div HALF)

\* np.exp(-k/Epoch_Tau) = exp(-1/Epoch_Tau)^k, by repeated squaring
RECURSIVE ExpNeg(_)
ExpNeg(k) ==
  IF k = 0 THEN ONE
  ELSE LET h == ExpNeg(k \div 2)
           sq == Mul(h, h)
       IN  IF k % 2 = 0 THEN sq ELSE Mul(sq, ExpInvTau)

\* floor(c * x) for an integer c <= 10^4 and a fixed-point x
ScaleFloor(c, x) ==
  (c * (x \div HALF) + ((c * (x % HALF)) \div HALF)) \div HALF

Max(a, b) == IF a >= b THEN a ELSE b

Epoch_DecayNoMin(k) ==
  IF k < DecayCutoff
    THEN ScaleFloor(n_epochs_ini, ExpNeg(k))
    ELSE n_epochs_min

Epoch_Decay(k) ==
  IF k < DecayCutoff
    THEN Max(ScaleFloor(n_epochs_ini, ExpNeg(k)), n_epochs_min)
    ELSE n_epochs_min

----------------------------------------------------------------------------
(* Networks *)

NoParams == [init |-> 0, adam |-> 0, lbfgs |-> 0, dirty |-> FALSE]

\* model() / sub_model(): a new object with its own random initialisation
FreshParams(id) == [init |-> id, adam |-> 0, lbfgs |-> 0, dirty |-> FALSE]

\* the initial conditions X0, P0, S0, V0 of line 55
InitialConditions == [by |-> NoParams, at |-> 0]

\* forward pass of a network with weights p at the (local) time t
Forward(p, t) == [by |-> p, at |-> t]

\* np.linspace(0, delta_t, n): point j (1-based) is (j-1) * delta_t/(n-1)
Linspace == [j \in 1..n |-> j - 1]

FirstRow(a) == a[1]

LastRow(a) == a[Len(a)]

\* MultiNetwork.set_network: worker_<index> := net
set_network(w, netid, index) ==
  IF index \in DOMAIN w THEN [w EXCEPT ![index] = netid]
                        ELSE [k \in DOMAIN w \cup {index} |->
                                IF k = index THEN netid ELSE w[k]]

Entry(step) ==
  [step |-> step, i |-> i, op |-> net, initial_state |-> initial_state,
   n_epochs |-> get_n_epochs, before |-> heap[net]]

----------------------------------------------------------------------------
(* The script, lines 59-67 and 261-361 *)

InitScript ==
  /\ pc = "parse"
  /\ args_train = "unset"
  /\ train = "unset"
  /\ i = -1
  /\ net = 0
  /\ net_ = 0
  /\ heap = <<>>
  /\ workers = <<>>
  /\ state_t = InitialConditions
  /\ initial_state = InitialConditions
  /\ get_n_epochs = 0
  /\ approximated_data = <<>>
  /\ saved = <<>>
  /\ log = <<>>

IdleDecay ==
  /\ iteration_number = -1
  /\ n_epochs = 0
  /\ prev_iteration = -1
  /\ prev_epochs = 0

IdleEval ==
  /\ input_data = <<>>
  /\ eval_indices = <<>>
  /\ local_input = <<>>
  /\ eval_result = [raised |-> FALSE, rows |-> <<>>]

Init == InitScript /\ IdleDecay /\ IdleEval

\* line 61: args = parser.parse_args()
ParseArgs ==
  /\ pc = "parse"
  /\ \E v \in TrainValues : args_train' = v
  /\ pc' = "assign"
  /\ UNCHANGED <<train, i, net, net_, heap, workers, state_t, initial_state,
                 get_n_epochs, approximated_data, saved, log>>
  /\ UNCHANGED <<decayVars, evalVars>>

\* line 63: train = args.train
AssignTrain ==
  /\ pc = "assign"
  /\ train' = args_train
  /\ pc' = "override"
  /\ UNCHANGED <<args_train, i, net, net_, heap, workers, state_t,
                 initial_state, get_n_epochs, approximated_data, saved, log>>
  /\ UNCHANGED <<decayVars, evalVars>>

OverrideTrainSkipped ==
  /\ pc = "override"
  /\ train' = train
  /\ pc' = "branch"
  /\ UNCHANGED <<args_train, i, net, net_, heap, workers, state_t,
                 initial_state, get_n_epochs, approximated_data, saved, log>>
  /\ UNCHANGED <<decayVars, evalVars>>

\* line 65: train = "yes"
OverrideTrain ==
  /\ pc = "override"
  /\ train' = "yes"
  /\ pc' = "branch"
  /\ UNCHANGED <<args_train, i, net, net_, heap, workers, state_t,
                 initial_state, get_n_epochs, approximated_data, saved, log>>
  /\ UNCHANGED <<decayVars, evalVars>>

\* line 67 / 365: if train == "yes": ... else: ...
Branch ==
  /\ pc = "branch"
  /\ pc' = IF train = "yes" THEN "model" ELSE "restore"
  /\ UNCHANGED <<args_train, train, i, net, net_, heap, workers, state_t,
                 initial_state, get_n_epochs, approximated_data, saved, log>>
  /\ UNCHANGED <<decayVars, evalVars>>

\* line 261: net_ = model()
MakeNet ==
  /\ pc = "model"
  /\ heap' = Append(heap, FreshParams(Len(heap) + 1))
  /\ net_' = Len(heap) + 1
  /\ pc' = "multi_model"
  /\ UNCHANGED <<args_train, train, i, net, workers, state_t, initial_state,
                 get_n_epochs, approximated_data, saved, log>>
  /\ UNCHANGED <<decayVars, evalVars>>

\* line 262: multi_net = model_(); lines 212-226: one untrained sub_model()
\* per interval, registered as worker_0 .. worker_{n_intervals-1}
MakeMultiNet ==
  /\ pc = "multi_model"
  /\ heap' = heap \o [k \in 1..n_intervals |-> FreshParams(Len(heap) + k)]
  /\ workers' = [k \in 0..(n_intervals - 1) |-> Len(heap) + k + 1]
  /\ pc' = "loop"
  /\ UNCHANGED <<args_train, train, i, net, net_, state_t, initial_state,
                 get_n_epochs, approximated_data, saved, log>>
  /\ UNCHANGED <<decayVars, evalVars>>

LoopHeadShort ==
  /\ pc = "loop"
  /\ IF i + 1 < n_intervals - 1
       THEN /\ i' = i + 1
            /\ net' = net_
            /\ pc' = "prepare"
       ELSE /\ pc' = "save"
            /\ UNCHANGED <<i, net>>
  /\ UNCHANGED <<args_train, train, net_, heap, workers, state_t,
                 initial_state, get_n_epochs, approximated_data, saved, log>>
  /\ UNCHANGED <<decayVars, evalVars>>

\* lines 272-273: for i in range(0, int(n_intervals), 1): net = net_
LoopHead ==
  /\ pc = "loop"
  /\ IF i + 1 < n_intervals
       THEN /\ i' = i + 1
            /\ net' = net_
            /\ pc' = "prepare"
       ELSE /\ pc' = "save"
            /\ UNCHANGED <<i, net>>
  /\ UNCHANGED <<args_train, train, net_, heap, workers, state_t,
                 initial_state, get_n_epochs, approximated_data, saved, log>>
  /\ UNCHANGED <<decayVars, evalVars>>

\* lines 279-306: initial_state = np.array([state_t]); params;
\* get_n_epochs = Epoch_Decay(i)
Prepare ==
  /\ pc = "prepare"
  /\ initial_state' = state_t
  /\ get_n_epochs' = Epoch_Decay(i)
  /\ pc' = "adam"
  /\ UNCHANGED <<args_train, train, i, net, net_, heap, workers, state_t,
                 approximated_data, saved, log>>
  /\ UNCHANGED <<decayVars, evalVars>>

AdamFitSkipLbfgs ==
  /\ pc = "adam"
  /\ heap' = [heap EXCEPT ![net].adam = @ + 1]
  /\ log' = Append(log, Entry("adam"))
  /\ pc' = "eval"
  /\ UNCHANGED <<args_train, train, i, net, net_, workers, state_t,
                 initial_state, get_n_epochs, approximated_data, saved>>
  /\ UNCHANGED <<decayVars, evalVars>>

\* lines 309-316: optimizer.fit(op=net, ...) returns; net is updated in place
AdamFit ==
  /\ pc = "adam"
  /\ heap' = [heap EXCEPT ![net].adam = @ + 1]
  /\ log' = Append(log, Entry("adam"))
  /\ pc' = "lbfgs"
  /\ UNCHANGED <<args_train, train, i, net, net_, workers, state_t,
                 initial_state, get_n_epochs, approximated_data, saved>>
  /\ UNCHANGED <<decayVars, evalVars>>

AdamFitRaisesSwallowed ==
  /\ pc = "adam"
  /\ \E partial \in BOOLEAN : heap' = [heap EXCEPT ![net].dirty = partial]
  /\ log' = Append(log, Entry("adam_raised"))
  /\ pc' = "lbfgs"
  /\ UNCHANGED <<args_train, train, i, net, net_, workers, state_t,
                 initial_state, get_n_epochs, approximated_data, saved>>
  /\ UNCHANGED <<decayVars, evalVars>>

\* lines 309-316: optimizer.fit raises; nothing catches it, the script ends
AdamFitRaises ==
  /\ pc = "adam"
  /\ \E partial \in BOOLEAN : heap' = [heap EXCEPT ![net].dirty = partial]
  /\ log' = Append(log, Entry("adam_raised"))
  /\ pc' = "crashed"
  /\ UNCHANGED <<args_train, train, i, net, net_, workers, state_t,
                 initial_state, get_n_epochs, approximated_data, saved>>
  /\ UNCHANGED <<decayVars, evalVars>>

\* lines 319-338: optimizer_lbfgs.fit(input_data=time_train) returns
LbfgsFit ==
  /\ pc = "lbfgs"
  /\ heap' = [heap EXCEPT ![net].lbfgs = @ + 1]
  /\ log' = Append(log, Entry("lbfgs"))
  /\ pc' = "eval"
  /\ UNCHANGED <<args_train, train, i, net, net_, workers, state_t,
                 initial_state, get_n_epochs, approximated_data, saved>>
  /\ UNCHANGED <<decayVars, evalVars>>

\* lines 319-338: optimizer_lbfgs.fit raises; the script ends
LbfgsFitRaises ==
  /\ pc = "lbfgs"
  /\ \E partial \in BOOLEAN : heap' = [heap EXCEPT ![net].dirty = partial]
  /\ log' = Append(log, Entry("lbfgs_raised"))
  /\ pc' = "crashed"
  /\ UNCHANGED <<args_train, train, i, net, net_, workers, state_t,
                 initial_state, get_n_epochs, approximated_data, saved>>
  /\ UNCHANGED <<decayVars, evalVars>>

\* line 341: approximated_data = net.eval(input_data=time_eval)
EvalTrained ==
  /\ pc = "eval"
  /\ approximated_data' = [j \in 1..n |-> Forward(heap[net], Linspace[j])]
  /\ log' = Append(log, Entry("eval"))
  /\ pc' = "update"
  /\ UNCHANGED <<args_train, train, i, net, net_, heap, workers, state_t,
                 initial_state, get_n_epochs, saved>>
  /\ UNCHANGED <<decayVars, evalVars>>

\* line 344: state_t = approximated_data[-1]
UpdateState ==
  /\ pc = "update"
  /\ state_t' = LastRow(approximated_data)
  /\ log' = Append(log, Entry("update"))
  /\ pc' = "next_model"
  /\ UNCHANGED <<args_train, train, i, net, net_, heap, workers,
                 initial_state, get_n_epochs, approximated_data, saved>>
  /\ UNCHANGED <<decayVars, evalVars>>

NextModelAliased ==
  /\ pc = "next_model"
  /\ heap' = heap
  /\ net_' = net
  /\ pc' = "load"
  /\ UNCHANGED <<args_train, train, i, net, workers, state_t, initial_state,
                 get_n_epochs, approximated_data, saved, log>>
  /\ UNCHANGED <<decayVars, evalVars>>

\* line 347: net_ = model()
NextModel ==
  /\ pc = "next_model"
  /\ heap' = Append(heap, FreshParams(Len(heap) + 1))
  /\ net_' = Len(heap) + 1
  /\ pc' = "load"
  /\ UNCHANGED <<args_train, train, i, net, workers, state_t, initial_state,
                 get_n_epochs, approximated_data, saved, log>>
  /\ UNCHANGED <<decayVars, evalVars>>

LoadStateDictSkipped ==
  /\ pc = "load"
  /\ heap' = heap
  /\ pc' = "register"
  /\ UNCHANGED <<args_train, train, i, net, net_, workers, state_t,
                 initial_state, get_n_epochs, approximated_data, saved, log>>
  /\ UNCHANGED <<decayVars, evalVars>>

\* lines 348-349: net_.load_state_dict(net.state_dict()) copies the values
LoadStateDict ==
  /\ pc = "load"
  /\ heap' = [heap EXCEPT ![net_] = heap[net]]
  /\ pc' = "register"
  /\ UNCHANGED <<args_train, train, i, net, net_, workers, state_t,
                 initial_state, get_n_epochs, approximated_data, saved, log>>
  /\ UNCHANGED <<decayVars, evalVars>>

\* line 353: multi_net.set_network(net=net, index=i)
SetNetwork ==
  /\ pc = "register"
  /\ workers' = set_network(workers, net, i)
  /\ log' = Append(log, Entry("register"))
  /\ pc' = "loop"
  /\ UNCHANGED <<args_train, train, i, net, net_, heap, state_t,
                 initial_state, get_n_epochs, approximated_data, saved>>
  /\ UNCHANGED <<decayVars, evalVars>>

\* lines 355-361: saver.write(model=multi_net, ...): the weights of every
\* registered worker go to disk
Save ==
  /\ pc = "save"
  /\ saved' = Append(saved, [k \in DOMAIN workers |-> heap[workers[k]]])
  /\ pc' = "done"
  /\ UNCHANGED <<args_train, train, i, net, net_, heap, workers, state_t,
                 initial_state, get_n_epochs, approximated_data, log>>
  /\ UNCHANGED <<decayVars, evalVars>>

Next ==
  \/ ParseArgs
  \/ AssignTrain
  \/ OverrideTrain
  \/ Branch
  \/ MakeNet
  \/ MakeMultiNet
  \/ LoopHead
  \/ Prepare
  \/ AdamFit
  \/ AdamFitRaises
  \/ LbfgsFit
  \/ LbfgsFitRaises
  \/ EvalTrained
  \/ UpdateState
  \/ NextModel
  \/ LoadStateDict
  \/ SetNetwork
  \/ Save

Spec == Init /\ [][Next]_vars

----------------------------------------------------------------------------
(* Epoch_Decay as a function: any two calls, one after the other *)

\* lines 99-107: n_epochs = Epoch_Decay(iteration_number)
CallEpochDecay ==
  /\ \E k \in 0..MaxIter :
       /\ iteration_number' = k
       /\ n_epochs' = Epoch_Decay(k)
  /\ prev_iteration' = iteration_number
  /\ prev_epochs' = n_epochs
  /\ UNCHANGED <<scriptVars, evalVars>>

NextDecay == CallEpochDecay

SpecDecay == Init /\ [][NextDecay]_vars

----------------------------------------------------------------------------
(* MultiNetwork.eval, lines 234-251.                                       *)
(* A time is a pair <<u, e>> standing for u/Sub hours + e * 5e-14 hours:   *)
(* u counts coarse ticks, e is an offset far below one tick, so that times *)
(* within 1e-13 of an interval boundary are represented exactly.           *)

\* delta_t = t_max/n_intervals (line 47 and line 167), in coarse ticks
delta_t == (t_max * Sub) \div n_intervals

\* the 1e-13 of line 243, in units of 5e-14
EPS == 2

Times ==
  {<<u, e>> : u \in (-(Margin * Sub))..((t_max + Margin) * Sub),
              e \in (-MaxFine)..MaxFine}

Zero == <<0, 0>>

Less(a, b) == a[1] < b[1] \/ (a[1] = b[1] /\ a[2] < b[2])

Leq(a, b) == a = b \/ Less(a, b)

\* floor(t/delta_t)
Floor(t) ==
  IF t[1] % delta_t = 0 /\ t[2] < 0
    THEN (t[1] \div delta_t) - 1
    ELSE t[1] \div delta_t

\* (t/delta_t).astype(int): the fraction is cut off, towards zero
AsTypeInt(t) ==
  IF Leq(Zero, t) THEN Floor(t) ELSE 0 - Floor(<<0 - t[1], 0 - t[2]>>)

\* lines 241-244, one element
EvalIndex(t) ==
  IF Less(Zero, t) THEN Floor(<<t[1], t[2] - EPS>>) ELSE AsTypeInt(t)

\* line 248, one element: input_data - self.delta_t * index
LocalTime(t, k) == <<t[1] - delta_t * k, t[2]>>

\* the weights a completed run leaves in worker_k
TrainedParams(k) ==
  [init |-> 1, adam |-> k + 1, lbfgs |-> k + 1, dirty |-> FALSE]

\* the MultiNetwork after training, as line 367 restores it, and the array
\* about to be evaluated (line 376)
InitEval ==
  /\ pc = "evaluate"
  /\ args_train = "unset"
  /\ train = "unset"
  /\ i = -1
  /\ net = 0
  /\ net_ = 0
  /\ heap = [k \in 1..n_intervals |-> TrainedParams(k - 1)]
  /\ workers = [k \in 0..(n_intervals - 1) |-> k + 1]
  /\ state_t = InitialConditions
  /\ initial_state = InitialConditions
  /\ get_n_epochs = 0
  /\ approximated_data = <<>>
  /\ saved = <<>>
  /\ log = <<>>
  /\ IdleDecay
  /\ \/ \E t \in Times : input_data = <<t>>
     \/ \E t1 \in Times : \E t2 \in Times : input_data = <<t1, t2>>
  /\ eval_indices = <<>>
  /\ local_input = <<>>
  /\ eval_result = [raised |-> FALSE, rows |-> <<>>]

\* lines 239-251: multi_net.eval(input_data).  getattr(self,
\* "worker_<index>") raises AttributeError for an index no worker is
\* registered under, and then the call returns nothing.
Eval ==
  /\ pc = "evaluate"
  /\ LET idx == [r \in DOMAIN input_data |-> EvalIndex(input_data[r])]
         loc == [r \in DOMAIN input_data |->
                   LocalTime(input_data[r], idx[r])]
     IN  /\ eval_indices' = idx
         /\ local_input' = loc
         /\ eval_result' =
              IF \A r \in DOMAIN input_data : idx[r] \in DOMAIN workers
                THEN [raised |-> FALSE,
                      rows |-> [r \in DOMAIN input_data |->
                                  Forward(heap[workers[idx[r]]], loc[r])]]
                ELSE [raised |-> TRUE, rows |-> <<>>]
  /\ pc' = "evaluated"
  /\ UNCHANGED <<args_train, train, i, net, net_, heap, workers, state_t,
                 initial_state, get_n_epochs, approximated_data, saved, log>>
  /\ UNCHANGED <<decayVars, input_data>>

NextEval == Eval

SpecEval == InitEval /\ [][NextEval]_vars

----------------------------------------------------------------------------
(* Properties *)

Intervals == 0..(n_intervals - 1)

StepNames == <<"adam", "lbfgs", "eval", "update", "register">>

Raised == {"adam_raised", "lbfgs_raised"}

FitSteps == {"adam", "lbfgs", "adam_raised", "lbfgs_raised"}

\* the interval and the step the p-th logged step must be
IntervalAt(p) == (p - 1) \div 5
StepAt(p) == StepNames[((p - 1) % 5) + 1]

Horizon == <<t_max * Sub, 0>>
InHorizon(t) == Leq(Zero, t) /\ Leq(t, Horizon)
Rows == DOMAIN input_data

\* C1: every time t of [0, t_max] handed to MultiNetwork.eval is routed to
\* one worker index k of 0..n_intervals-1 with k*delta_t <= t <=
\* (k+1)*delta_t, an interval boundary going to the earlier interval, and
\* the worker receives the local time t - k*delta_t, within [0, delta_t].
C1_EvalRouting ==
  (pc = "evaluated" /\ \A r \in Rows : InHorizon(input_data[r])) =>
     /\ ~eval_result.raised
     /\ Len(eval_result.rows) = Len(input_data)
     /\ \A r \in Rows :
          LET t == input_data[r]
              k == eval_indices[r]
          IN  /\ k \in Intervals
              /\ Leq(<<k * delta_t, 0>>, t)
              /\ Leq(t, <<(k + 1) * delta_t, 0>>)
              /\ (t # Zero => Less(<<k * delta_t, 0>>, t))
              /\ Leq(Zero, local_input[r])
              /\ Leq(local_input[r], <<delta_t, 0>>)
              /\ eval_result.rows[r] =
                   Forward(heap[workers[k]], local_input[r])

\* C2: every fit of interval 0 is given the initial state (X0, P0, S0, V0);
\* every fit of an interval i >= 1 is given the prediction of the trained
\* network of interval i-1 at local time delta_t, the last point of
\* linspace(0, delta_t, n).
C2_InitialStateHandOff ==
  \A p \in DOMAIN log :
    log[p].step \in FitSteps =>
      IF log[p].i = 0
        THEN log[p].initial_state = InitialConditions
        ELSE /\ log[p].initial_state.at = n - 1
             /\ log[p].initial_state.by = heap[workers[log[p].i - 1]]
             /\ log[p].initial_state.by.adam = log[p].i
             /\ log[p].initial_state.by.lbfgs = log[p].i

C2_Witness ==
  /\ pc = "lbfgs"
  /\ i = 2
  /\ log[Len(log)].step = "adam"
  /\ log[Len(log)].initial_state = Forward(heap[workers[1]], n - 1)

\* C3: the logged steps are, in this order and with none left out, ADAM fit,
\* L-BFGS-B fit, evaluation, state update, registration of interval 0, then
\* the same five of interval 1, and so on, each interval's five steps acting
\* on one network; only a fit that raises ends the sequence early.
C3_StepOrder ==
  \A p \in DOMAIN log :
    /\ log[p].i = IntervalAt(p)
    /\ \/ log[p].step = StepAt(p)
       \/ /\ p = Len(log)
          /\ pc = "crashed"
          /\ StepAt(p) = "adam" /\ log[p].step = "adam_raised"
       \/ /\ p = Len(log)
          /\ pc = "crashed"
          /\ StepAt(p) = "lbfgs" /\ log[p].step = "lbfgs_raised"
    /\ log[p].op = log[5 * IntervalAt(p) + 1].op

C3_Witness ==
  /\ pc = "loop"
  /\ i = 1
  /\ Len(log) = 10
  /\ log[10].step = "register"

\* C4: Epoch_Decay(0) = n_epochs_ini, 500 <= Epoch_Decay(k) <= 5000 for
\* every k, Epoch_Decay(k) = 500 for k >= 100, and Epoch_Decay(j) >=
\* Epoch_Decay(k) whenever j <= k.
C4_EpochDecay ==
  iteration_number >= 0 =>
    /\ n_epochs >= n_epochs_min
    /\ n_epochs <= n_epochs_ini
    /\ (iteration_number = 0 => n_epochs = n_epochs_ini)
    /\ (iteration_number >= DecayCutoff => n_epochs = n_epochs_min)
    /\ (prev_iteration >= 0 /\ prev_iteration <= iteration_number
          => prev_epochs >= n_epochs)

C4_Witness ==
  /\ prev_iteration = 6
  /\ prev_epochs = 676
  /\ iteration_number = DecayCutoff
  /\ n_epochs = n_epochs_min

C6_FitFailureEndsScript ==
  \A p \in DOMAIN log :
    log[p].step \in Raised =>
      /\ p = Len(log)
      /\ pc = "crashed"
      /\ saved = <<>>
      /\ \A j \in Intervals :
           j >= log[p].i =>
             /\ workers[j] # log[p].op
             /\ heap[workers[j]] = FreshParams(workers[j])

C6_Witness ==
  /\ pc = "crashed"
  /\ i = 3
  /\ log[Len(log)].step = "lbfgs_raised"
  /\ heap[workers[2]].lbfgs = 3

\* C7: the model is written at most once and only when the loop is over;
\* by then every interval 0..n_intervals-1 has been trained exactly once,
\* in increasing order, worker_i is the network that interval i trained,
\* no placeholder of model_() is left, and these weights are what is saved.
C7_SaveAfterAllTrained ==
  /\ Len(saved) <= 1
  /\ (saved # <<>> => pc = "done")
  /\ (pc = "done" =>
        /\ Len(saved) = 1
        /\ Len(log) = 5 * n_intervals
        /\ \A k \in Intervals :
             /\ Cardinality({p \in DOMAIN log :
                   log[p].step = "adam" /\ log[p].i = k}) = 1
             /\ Cardinality({p \in DOMAIN log :
                   log[p].step = "lbfgs" /\ log[p].i = k}) = 1
             /\ \A p \in DOMAIN log :
                  log[p].i = k /\ log[p].step \in {"adam", "lbfgs"}
                    => workers[k] = log[p].op
             /\ heap[workers[k]] # FreshParams(workers[k])
             /\ heap[workers[k]].adam = k + 1
             /\ heap[workers[k]].lbfgs = k + 1
             /\ saved[1][k] = heap[workers[k]]
        /\ \A p, q \in DOMAIN log :
             (p < q /\ log[p].step = "adam" /\ log[q].step = "adam")
               => log[p].i < log[q].i)

C7_Witness == pc = "done" /\ Len(saved) = 1 /\ i = n_intervals - 1

\* C8: the network of interval 0 enters its ADAM fit with its own fresh
\* initialisation; the network of every interval i >= 1 enters its ADAM fit
\* with the final weights of the network of interval i-1.
C8_WarmStart ==
  \A p \in DOMAIN log :
    log[p].step \in {"adam", "adam_raised"} =>
      IF log[p].i = 0
        THEN log[p].before = FreshParams(log[p].op)
        ELSE /\ log[p].before = heap[workers[log[p].i - 1]]
             /\ log[p].before.adam = log[p].i
             /\ log[p].before.lbfgs = log[p].i

C8_Witness ==
  /\ pc = "eval"
  /\ i = 4
  /\ log[Len(log) - 1].step = "adam"
  /\ log[Len(log) - 1].before = heap[workers[3]]

Registered == {log[p].i : p \in {q \in DOMAIN log : log[q].step = "register"}}

\* C9: no step changes a registered worker: worker_k stays the same object
\* with the same weights once interval k is registered, and a registration
\* changes no worker but its own.
C9_RegisteredWorkersFrozen ==
  [][/\ \A k \in Registered :
          /\ workers'[k] = workers[k]
          /\ heap'[workers[k]] = heap[workers[k]]
     /\ pc = "register" =>
          \A k \in Intervals : k # i => workers'[k] = workers[k]]_vars

C9_Witness ==
  /\ pc = "update"
  /\ i = 5
  /\ Registered = 0..4
  /\ heap[workers[4]].adam = 5
  /\ heap[net].adam = 6

\* C10: for every t < 0 and every t > t_max the index MultiNetwork.eval
\* computes is outside 0..n_intervals-1 and the call raises instead of
\* returning rows.
C10_OutsideHorizonFails ==
  pc = "evaluated" =>
    \A r \in Rows :
      ~InHorizon(input_data[r]) =>
        /\ eval_indices[r] \notin Intervals
        /\ eval_result.raised
        /\ eval_result.rows = <<>>

====
